---- MODULE Spec2Model ----
(***************************************************************************)
(* Model of notify_canada_interns.py: the table extraction cascade, the    *)
(* two row parsers, the row loop of main() with its continuation context   *)
(* and dedupe key, and the notified.json store.                            *)
(*                                                                         *)
(* Text.  A Python str is a sequence of tokens [c, n]:                      *)
(*   [c |-> t,   n |-> 0]  a run of characters t holding no character      *)
(*                         reference and no leading or trailing blank;     *)
(*   [c |-> "&", n |-> k]  "&" followed by k copies of "amp;"              *)
(*                         (k = 0 is a bare ampersand);                    *)
(*   [c |-> " ", n |-> 0]  one blank;                                      *)
(*   [c |-> " ", n |-> k]  k > 0: "&" (k-1 copies of "amp;") "#32;",       *)
(*                         a blank escaped k times.                        *)
(* One pass of html.unescape lowers n by one.  The empty sequence is both  *)
(* "" and None (the code only tests these for truth).                      *)
(***************************************************************************)
EXTENDS Integers, Sequences, FiniteSets, TLC

VARIABLES
  pc,                \* where main() stands: idle (no run), env, fetch, section, table, loop
  webhook_url,       \* whether DISCORD_WEBHOOK_URL is set
  md,                \* the fetched document
  normalized_rows,   \* build_normalized_rows(rows)
  cols,              \* the headers found by lines 272-276
  idx,               \* rows of the loop already examined
  notified,          \* the in-memory NotifiedSet
  store,             \* the strings held by notified.json
  last_valid_link, previous_company, newly_notified,
  exit_code,         \* exit status of the last run (-1 while none has ended)
  outcome,           \* how the last run ended
  did,               \* collaborators and phases the current run has reached
  used,              \* table rows of the documents fetched so far
  store0,            \* the store when the current run started
  loaded,            \* what load_notified returned in the current run
  saves,             \* save_notified calls of the current run
  log,               \* one entry per examined row of the current run
  ever_ok,           \* keys whose dispatch has succeeded, in any run
  fn                 \* argument and result of a function applied on its own

pipeline == <<pc, webhook_url, md, normalized_rows, cols, idx, notified, store,
              last_valid_link, previous_company, newly_notified, exit_code,
              outcome, did, used, store0, loaded, saves, log, ever_ok>>
vars == <<pipeline, fn>>

\* ------------------------------------------------------------------ bounds
MaxRows == 2
MaxEsc == 4
MaxTrs == 2
MaxCells == 2
MaxLines == 3

\* -------------------------------------------------------------------- text
Tok(c) == [c |-> c, n |-> 0]
Amp(k) == [c |-> "&", n |-> k]
Blank(k) == [c |-> " ", n |-> k]
Str(c) == <<Tok(c)>>
Empty == <<>>
Range(s) == {s[j] : j \in DOMAIN s}
\* A sequence / a mapping given by a rule, built element by element.
AsSeq(f) == f \o <<>>
AsMap(f) == f @@ <<>>
SeqsUpTo(S, n) == UNION {[1..k -> S] : k \in 0..n}

unescape(s) == AsSeq([j \in 1..Len(s) |-> IF s[j].n > 0 THEN [s[j] EXCEPT !.n = @ - 1] ELSE s[j]])

IsBlank(t) == t.c = " " /\ t.n = 0

strip(s) ==
  LET keep == {j \in 1..Len(s) : ~IsBlank(s[j])}
      lo == CHOOSE j \in keep : \A k \in keep : j <= k
      hi == CHOOSE j \in keep : \A k \in keep : k <= j
  IN IF s = <<>> THEN Empty
     ELSE IF ~IsBlank(s[1]) /\ ~IsBlank(s[Len(s)]) THEN s
     ELSE IF keep = {} THEN Empty
     ELSE SubSeq(s, lo, hi)

strip_html_tags(text) == strip(unescape(text))

normalize_url(url) == strip(unescape(url))

\* A cell's content is [t, href, kind]: its visible text, the source text of
\* the URL it links to (Empty: no link) and how the link is written: "a" an
\* anchor element, "md" a markdown [text](url).  The padding value "" is the
\* cell with no text and no link.
Cell(t, href, kind) == [t |-> t, href |-> href, kind |-> kind]
Plain(t) == Cell(t, Empty, "a")
EmptyCell == Plain(Empty)

\* ------------------------------------------------------------------- dicts
\* A Python dict: its keys in insertion order and its mapping.
RECURSIVE Dedup(_)
Dedup(s) ==
  IF s = <<>> THEN <<>>
  ELSE LET r == Dedup(SubSeq(s, 1, Len(s) - 1))
       IN IF s[Len(s)] \in Range(r) THEN r ELSE Append(r, s[Len(s)])

LastIdx(s, h) == CHOOSE j \in 1..Len(s) : s[j] = h /\ \A k \in 1..Len(s) : s[k] = h => k <= j

MkDict(headers, cells) ==
  [keys |-> Dedup(headers),
   val |-> AsMap([h \in Range(headers) |-> cells[LastIdx(headers, h)]])]

Get(f, h, default) == IF h \in DOMAIN f THEN f[h] ELSE default

Pad(cells, n) == IF Len(cells) < n THEN cells \o [j \in 1..(n - Len(cells)) |-> EmptyCell] ELSE cells

\* ------------------------------------------------------------ pipe tables
\* A line of the section: kind "text" (does not start with a pipe), "sep"
\* (pipes and dashes only) or "cells" (its cells, split on pipes).
IsPipe(line) == line.kind # "text"

extract_first_markdown_table(lines) ==
  LET starts == {j \in 1..Len(lines) : IsPipe(lines[j])}
      first == CHOOSE j \in starts : \A k \in starts : j <= k
      stops == {j \in 1..Len(lines) : j > first /\ ~IsPipe(lines[j])}
      stop == IF stops = {} THEN Len(lines) + 1
              ELSE CHOOSE j \in stops : \A k \in stops : j <= k
  IN IF starts = {} THEN <<>> ELSE SubSeq(lines, first, stop - 1)

parse_markdown_table(table_lines) ==
  LET cleaned == table_lines
      headers == AsSeq([j \in 1..Len(cleaned[1].cells) |-> strip(cleaned[1].cells[j].t)])
      data_rows == IF cleaned[2].kind = "sep" THEN SubSeq(cleaned, 3, Len(cleaned))
                   ELSE SubSeq(cleaned, 2, Len(cleaned))
      cellsOf(row) == Pad(AsSeq([j \in 1..Len(row.cells) |-> [row.cells[j] EXCEPT !.t = strip(@)]]), Len(headers))
  IN IF Len(cleaned) < 2 THEN <<>>
     ELSE AsSeq([r \in 1..Len(data_rows) |-> MkDict(headers, cellsOf(data_rows[r]))])

\* ------------------------------------------------------------ html tables
\* A table element: [found, trs]; a tr is a sequence of cells [tag, v], v
\* the cell's content.
NoTable == [found |-> FALSE, trs |-> <<>>]
None == [none |-> TRUE, rows |-> <<>>]
Some(rows) == [none |-> FALSE, rows |-> rows]
Truthy(opt) == ~opt.none /\ opt.rows # <<>>

RECURSIVE Flatten(_)
Flatten(ss) == IF ss = <<>> THEN <<>> ELSE Head(ss) \o Flatten(Tail(ss))

get_text(cell) == strip(unescape(cell.v.t))

\* Line 93 with the first row always taken for the header row.
start_idx_skips_first(all_trs) == IF all_trs # <<>> THEN 1 ELSE 0

start_idx(all_trs) ==
  IF all_trs # <<>> /\ \E j \in 1..Len(all_trs[1]) : all_trs[1][j].tag = "th" THEN 1 ELSE 0

parse_html_table(table) ==
  LET all_trs == table.trs
      ths == SelectSeq(Flatten(all_trs), LAMBDA c : c.tag = "th")
      first_tr == all_trs[1]
      headers == IF ths # <<>> THEN AsSeq([j \in 1..Len(ths) |-> get_text(ths[j])])
                 ELSE AsSeq([j \in 1..Len(first_tr) |-> get_text(first_tr[j])])
      body == SelectSeq(SubSeq(all_trs, start_idx(all_trs) + 1, Len(all_trs)), LAMBDA tr : tr # <<>>)
      cell_raw(tr) == Pad(AsSeq([j \in 1..Len(tr) |-> tr[j].v]), Len(headers))
  IN IF ~table.found THEN None
     ELSE IF ths = <<>> /\ all_trs = <<>> THEN None
     ELSE Some(AsSeq([r \in 1..Len(body) |-> MkDict(headers, cell_raw(body[r]))]))

\* --------------------------------------------------------------- document
\* md: [heading, lines, tables, sec].  heading: some line matches a section
\* keyword; lines: the section's lines; tables: the table elements of the
\* whole document in order; sec: which of them lies in the section (0: none).
find_section_markdown(doc) == doc.heading

SectionTable(doc) == IF doc.sec = 0 THEN NoTable ELSE doc.tables[doc.sec]
FirstTableAnywhere(doc) == IF doc.tables = <<>> THEN NoTable ELSE doc.tables[1]

ExtractRows(doc) ==
  LET table_lines == extract_first_markdown_table(doc.lines)
      html_rows == parse_html_table(SectionTable(doc))
      m == FirstTableAnywhere(doc)
      parsed_any == parse_html_table(m)
  IN IF table_lines # <<>> THEN parse_markdown_table(table_lines)
     ELSE IF Truthy(html_rows) THEN html_rows.rows
     ELSE IF m.found /\ Truthy(parsed_any) THEN parsed_any.rows
     ELSE <<>>


\* ---------------------------------------------------------------- row loop
build_normalized_rows(raw_rows) ==
  AsSeq([r \in 1..Len(raw_rows) |->
     [keys |-> raw_rows[r].keys,
      text |-> AsMap([h \in DOMAIN raw_rows[r].val |-> strip_html_tags(raw_rows[r].val[h].t)]),
      raw |-> raw_rows[r].val]])

\* Header texts that hold the word main() looks for (lines 272-276), among
\* the header texts of the model.
ApplyNames == {Str("Application")}
LocationNames == {Str("Location")}
CompanyNames == {Str("Company")}
RoleNames == {Str("Role")}
AgeNames == {Str("Age")}

FirstWith(hs, S, default) ==
  LET hit == {j \in 1..Len(hs) : hs[j] \in S}
  IN IF hit = {} THEN default ELSE hs[CHOOSE j \in hit : \A k \in hit : j <= k]

FindHeaders(rows) ==
  LET human_headers == rows[1].keys
  IN [application_header |-> FirstWith(human_headers, ApplyNames, Empty),
      location_header |-> FirstWith(human_headers, LocationNames, Empty),
      company_header |-> FirstWith(human_headers, CompanyNames,
                           IF human_headers # <<>> THEN human_headers[1] ELSE Str("Company")),
      role_header |-> FirstWith(human_headers, RoleNames,
                        IF Len(human_headers) > 1 THEN human_headers[2] ELSE Str("Role")),
      age_header |-> FirstWith(human_headers, AgeNames, Empty)]

NoCols == [application_header |-> Empty, location_header |-> Empty, company_header |-> Empty,
           role_header |-> Empty, age_header |-> Empty]

\* Texts of the model that hold "canada" / match the zero-day pattern.
CanadaTexts == {Str("Toronto, Canada")}
ZeroDayTexts == {Str("0d")}
ContinuationGlyph == Str("↳")

location_is_canada(location_text) ==
  location_text # Empty /\ strip_html_tags(location_text) \in CanadaTexts

age_is_zero(age) == age # Empty /\ age \in ZeroDayTexts

\* An anchor's href is decoded once by the markup parser and normalized; a
\* markdown link is matched in the raw text and normalized.  The plain-text
\* variants of the model's cells hold no URL.
extract_link_from_cell(cell) ==
  IF cell = EmptyCell \/ cell.href = Empty THEN Empty
  ELSE IF cell.kind = "a" THEN normalize_url(strip(unescape(cell.href)))
  ELSE normalize_url(cell.href)

extract_link_from_text(text) == Empty

load_notified(file) == {normalize_url(x) : x \in file}

save_notified(set) == {normalize_url(x) : x \in set}

Bar == <<Tok("|")>>

\* What lines 285-341 compute for one row, given the context left by the
\* rows before it.
Resolve(item, prev_company, prev_link) ==
  LET location == Get(item.text, cols.location_header, Empty)
      age == Get(item.text, cols.age_header, Empty)
      own == extract_link_from_cell(Get(item.raw, cols.application_header, EmptyCell))
      current_link == IF own # Empty THEN own
                      ELSE extract_link_from_text(Get(item.text, cols.application_header, Empty))
      company_text_raw == Get(item.text, cols.company_header, Empty)
      company_text_stripped == IF company_text_raw # Empty
                               THEN strip(strip_html_tags(company_text_raw)) ELSE Empty
      is_main == company_text_stripped # Empty /\ company_text_stripped # ContinuationGlyph
      company2 == IF is_main THEN company_text_stripped ELSE prev_company
      link2 == IF is_main /\ current_link # Empty THEN current_link ELSE prev_link
      link == IF current_link # Empty THEN current_link ELSE link2
      effective == IF company_text_stripped = ContinuationGlyph /\ company2 # Empty
                   THEN company2 ELSE company_text_stripped
      role_text == strip(Get(item.text, cols.role_header, Empty))
      loc_text == strip(strip_html_tags(location))
      composite == normalize_url(effective \o Bar \o role_text \o Bar \o loc_text)
      key == IF link # Empty THEN normalize_url(link) ELSE composite
  IN [passes |-> location_is_canada(location) /\ age_is_zero(age),
      company |-> company_text_stripped,
      own |-> current_link,
      previous_company |-> company2,
      last_valid_link |-> link2,
      link |-> link,
      key |-> key,
      composite |-> composite,
      company_display |-> effective,
      description |-> IF link # Empty THEN "link" ELSE "none"]

Entry(what, r) ==
  [what |-> what, company |-> r.company, own |-> r.own, context |-> r.last_valid_link,
   link |-> r.link, key |-> r.key, composite |-> r.composite, company_display |-> r.company_display,
   description |-> r.description, again |-> r.key \in ever_ok]

Filtered == [what |-> "filtered", company |-> Empty, own |-> Empty, context |-> Empty,
             link |-> Empty, key |-> Empty, composite |-> Empty, company_display |-> Empty,
             description |-> "none", again |-> FALSE]

\* ------------------------------------------------------------------ inputs
Companies == {"Acme", "Beta", "↳"}
Locations == {"Toronto, Canada", "NYC"}
Ages == {"0d", "3d"}
\* The rows of the model: every row that passes both filters, and the rows
\* with a link that fail exactly one of them.
Postings ==
  {p \in [company : Companies, location : Locations, age : Ages, apply : BOOLEAN] :
     \/ p.location = "Toronto, Canada" /\ p.age = "0d"
     \/ p.apply /\ (p.location = "Toronto, Canada" \/ p.age = "0d")}
Escapes == 0..MaxEsc

BaseOf(company) ==
  CASE company = "Acme" -> "https://acme.co/jobs?id=1"
    [] company = "Beta" -> "https://beta.io/careers?id=7"
    [] OTHER -> "https://acme.co/jobs?id=2"

\* The URL of a posting's application link, its ampersand escaped e times.
LinkOf(company, e) == <<Tok(BaseOf(company)), Amp(e), Tok("src=gh")>>

HeaderNames == <<"Company", "Role", "Location", "Application", "Age">>

CellsOf(p, e, kind) ==
  <<Plain(Str(p.company)), Plain(Str("SWE Intern")), Plain(Str(p.location)),
    IF p.apply THEN Cell(Str("Apply"), LinkOf(p.company, e), kind) ELSE Plain(Str("Closed")),
    Plain(Str(p.age))>>

HeaderLine == [kind |-> "cells", cells |-> AsSeq([j \in 1..Len(HeaderNames) |-> Plain(Str(HeaderNames[j]))])]
SepLine == [kind |-> "sep", cells |-> <<Plain(Str("---"))>>]
TextLine == [kind |-> "text", cells |-> <<>>]

PipeDoc(R, e) ==
  [heading |-> TRUE,
   lines |-> <<HeaderLine, SepLine>>
             \o [r \in 1..Len(R) |-> [kind |-> "cells", cells |-> CellsOf(R[r], e, "md")]],
   tables |-> <<>>, sec |-> 0]

HtmlTable(R, e) ==
  [found |-> TRUE,
   trs |-> <<AsSeq([j \in 1..Len(HeaderNames) |-> [tag |-> "th", v |-> Plain(Str(HeaderNames[j]))]])>>
           \o [r \in 1..Len(R) |->
                 AsSeq([j \in 1..Len(HeaderNames) |-> [tag |-> "td", v |-> CellsOf(R[r], e, "a")[j]]])]]

HtmlDoc(R, e) == [heading |-> TRUE, lines |-> <<TextLine>>, tables |-> <<HtmlTable(R, e)>>, sec |-> 1]

NoDoc == [heading |-> FALSE, lines |-> <<>>, tables |-> <<>>, sec |-> 0]

\* The documents a fetch can return: no section heading; a pipe table; an
\* HTML table of at most one row.  The documents fetched in one behaviour
\* hold at most MaxRows rows together.
Encodings == {"none", "pipe", "html"}
IsDoc(R, e, enc) ==
  \/ enc = "none" /\ R = <<>> /\ e = 0
  \/ enc = "pipe"
  \/ enc = "html" /\ Len(R) <= 1
Encode(R, e, enc) ==
  CASE enc = "pipe" -> PipeDoc(R, e)
    [] enc = "html" -> HtmlDoc(R, e)
    [] OTHER -> NoDoc

NoFn == [arg |-> <<>>, stage |-> 0, file |-> {}, out |-> <<>>]

\* ----------------------------------------------------------------- actions
InitPipeline ==
  /\ pc = "idle" /\ webhook_url = FALSE /\ md = NoDoc /\ normalized_rows = <<>>
  /\ cols = NoCols
  /\ idx = 0 /\ notified = {} /\ store = {} /\ last_valid_link = Empty
  /\ previous_company = Empty /\ newly_notified = <<>> /\ exit_code = -1
  /\ outcome = "none" /\ did = {} /\ used = 0 /\ store0 = {} /\ loaded = {}
  /\ saves = 0 /\ log = <<>> /\ ever_ok = {}

Init == InitPipeline /\ fn = NoFn

\* The process is started (by its schedule, any number of times, one run at
\* a time): main() begins with nothing in memory.
Invoke ==
  /\ pc = "idle"
  /\ \E w \in BOOLEAN : webhook_url' = w
  /\ pc' = "env"
  /\ md' = NoDoc /\ normalized_rows' = <<>> /\ cols' = NoCols /\ idx' = 0 /\ notified' = {}
  /\ last_valid_link' = Empty /\ previous_company' = Empty /\ newly_notified' = <<>>
  /\ exit_code' = -1 /\ outcome' = "running" /\ did' = {} /\ store0' = store
  /\ loaded' = {} /\ saves' = 0 /\ log' = <<>>
  /\ UNCHANGED <<store, ever_ok, used, fn>>

Exit(code, how) == pc' = "idle" /\ exit_code' = code /\ outcome' = how

MissingWebhook ==
  /\ pc = "env" /\ ~webhook_url
  /\ Exit(2, "no_webhook")
  /\ UNCHANGED <<webhook_url, md, normalized_rows, cols, idx, notified, store, last_valid_link,
                 previous_company, newly_notified, did, used, store0, loaded, saves, log,
                 ever_ok, fn>>

FetchFail ==
  /\ pc = "env" /\ webhook_url
  /\ did' = did \cup {"fetch"}
  /\ Exit(1, "fetch_failed")
  /\ UNCHANGED <<webhook_url, md, normalized_rows, cols, idx, notified, store, last_valid_link,
                 previous_company, newly_notified, used, store0, loaded, saves, log,
                 ever_ok, fn>>

FetchOk ==
  /\ pc = "env" /\ webhook_url
  /\ \E R \in SeqsUpTo(Postings, MaxRows - used), e \in Escapes, enc \in Encodings :
       IsDoc(R, e, enc) /\ md' = Encode(R, e, enc) /\ used' = used + Len(R)
  /\ did' = did \cup {"fetch"}
  /\ pc' = "section"
  /\ UNCHANGED <<webhook_url, normalized_rows, cols, idx, notified, store, last_valid_link,
                 previous_company, newly_notified, exit_code, outcome, store0,
                 loaded, saves, log, ever_ok, fn>>

SectionNotFound ==
  /\ pc = "section" /\ ~find_section_markdown(md)
  /\ did' = did \cup {"section"}
  /\ Exit(1, "no_section")
  /\ UNCHANGED <<webhook_url, md, normalized_rows, cols, idx, notified, store, last_valid_link,
                 previous_company, newly_notified, used, store0, loaded, saves, log,
                 ever_ok, fn>>

\* Lines 263-265 exiting with status 1, as line 242 does.
NoRowsExitsOne ==
  LET rows == ExtractRows(md)
  IN
       /\ pc = "section" /\ find_section_markdown(md)
       /\ rows = <<>>
       /\ did' = did \cup {"section", "table"}
       /\ Exit(1, "no_rows")
       /\ UNCHANGED <<webhook_url, md, normalized_rows, cols, idx, notified, store, last_valid_link,
                      previous_company, newly_notified, used, store0, loaded, saves, log,
                      ever_ok, fn>>

NoRows ==
  LET rows == ExtractRows(md)
  IN
       /\ pc = "section" /\ find_section_markdown(md)
       /\ rows = <<>>
       /\ did' = did \cup {"section", "table"}
       /\ Exit(0, "no_rows")
       /\ UNCHANGED <<webhook_url, md, normalized_rows, cols, idx, notified, store, last_valid_link,
                      previous_company, newly_notified, used, store0, loaded, saves, log,
                      ever_ok, fn>>

HaveRows ==
  LET rows == ExtractRows(md)
      built == build_normalized_rows(rows)
      old == load_notified(store)
  IN
       /\ pc = "section" /\ find_section_markdown(md)
       /\ rows # <<>>
       /\ normalized_rows' = built
       /\ cols' = FindHeaders(built)
       /\ notified' = old
       /\ loaded' = old
       /\ did' = did \cup {"section", "table", "load"}
       /\ pc' = "loop"
       /\ UNCHANGED <<webhook_url, md, idx, store, last_valid_link, previous_company,
                      newly_notified, exit_code, outcome, used, store0, saves, log, ever_ok, fn>>

Current == Resolve(normalized_rows[idx + 1], previous_company, last_valid_link)

RowFiltered ==
  LET cur == Current
  IN
       /\ pc = "loop" /\ idx < Len(normalized_rows)
       /\ ~cur.passes
       /\ idx' = idx + 1
       /\ log' = Append(log, Filtered)
       /\ UNCHANGED <<pc, webhook_url, md, normalized_rows, cols, notified, store, last_valid_link,
                      previous_company, newly_notified, exit_code, outcome, did, used, store0,
                      loaded, saves, ever_ok, fn>>

RowAlreadyNotified ==
  LET cur == Current
  IN
       /\ pc = "loop" /\ idx < Len(normalized_rows)
       /\ cur.passes /\ cur.key \in notified
       /\ previous_company' = cur.previous_company
       /\ last_valid_link' = cur.last_valid_link
       /\ idx' = idx + 1
       /\ log' = Append(log, Entry("known", cur))
       /\ UNCHANGED <<pc, webhook_url, md, normalized_rows, cols, notified, store, newly_notified,
                      exit_code, outcome, did, used, store0, loaded, saves, ever_ok, fn>>

RowSendOk ==
  LET cur == Current
  IN
       /\ pc = "loop" /\ idx < Len(normalized_rows)
       /\ cur.passes /\ cur.key \notin notified
       /\ previous_company' = cur.previous_company
       /\ last_valid_link' = cur.last_valid_link
       /\ notified' = notified \cup {cur.key}
       /\ store' = save_notified(notified \cup {cur.key})
       /\ saves' = saves + 1
       /\ newly_notified' = Append(newly_notified, cur.key)
       /\ ever_ok' = ever_ok \cup {cur.key}
       /\ idx' = idx + 1
       /\ log' = Append(log, Entry("sent", cur))
       /\ UNCHANGED <<pc, webhook_url, md, normalized_rows, cols, exit_code, outcome, did, used,
                      store0, loaded, fn>>

\* Lines 343-351 with the key recorded before the send is attempted.
RowSendFailKeepsKey ==
  LET cur == Current
  IN
       /\ pc = "loop" /\ idx < Len(normalized_rows)
       /\ cur.passes /\ cur.key \notin notified
       /\ previous_company' = cur.previous_company
       /\ last_valid_link' = cur.last_valid_link
       /\ notified' = notified \cup {cur.key}
       /\ idx' = idx + 1
       /\ log' = Append(log, Entry("failed", cur))
       /\ UNCHANGED <<pc, webhook_url, md, normalized_rows, cols, store, newly_notified,
                      exit_code, outcome, did, used, store0, loaded, saves, ever_ok, fn>>

RowSendFail ==
  LET cur == Current
  IN
       /\ pc = "loop" /\ idx < Len(normalized_rows)
       /\ cur.passes /\ cur.key \notin notified
       /\ previous_company' = cur.previous_company
       /\ last_valid_link' = cur.last_valid_link
       /\ idx' = idx + 1
       /\ log' = Append(log, Entry("failed", cur))
       /\ UNCHANGED <<pc, webhook_url, md, normalized_rows, cols, notified, store, newly_notified,
                      exit_code, outcome, did, used, store0, loaded, saves, ever_ok, fn>>

LoopEnd ==
  /\ pc = "loop" /\ idx = Len(normalized_rows)
  /\ Exit(0, "completed")
  /\ UNCHANGED <<webhook_url, md, normalized_rows, cols, idx, notified, store, last_valid_link,
                 previous_company, newly_notified, did, used, store0, loaded, saves, log,
                 ever_ok, fn>>

Next ==
  \/ Invoke \/ MissingWebhook \/ FetchFail \/ FetchOk \/ SectionNotFound \/ NoRows
  \/ HaveRows \/ RowFiltered \/ RowAlreadyNotified \/ RowSendOk \/ RowSendFail \/ LoopEnd

Spec == Init /\ [][Next]_vars

\* ------------------------------------------- functions applied on their own
\* parse_html_table on every small table.
CellSet == {[tag |-> "th", v |-> Plain(Str("a"))], [tag |-> "td", v |-> Plain(Str("a"))],
            [tag |-> "td", v |-> Plain(Str("b"))]}
TrSet == SeqsUpTo(CellSet, MaxCells)
Tables == {[found |-> TRUE, trs |-> trs] : trs \in SeqsUpTo(TrSet, MaxTrs)} \cup {NoTable}

InitHtml ==
  /\ InitPipeline
  /\ \E t \in Tables : fn = [arg |-> t, stage |-> 0, file |-> {}, out |-> None]

ApplyParseHtml ==
  /\ fn.stage = 0
  /\ fn' = [fn EXCEPT !.stage = 1, !.out = parse_html_table(fn.arg)]
  /\ UNCHANGED pipeline

SpecHtml == InitHtml /\ [][ApplyParseHtml]_vars

\* The extraction cascade of main() on every small document.
SmallHeader == [kind |-> "cells", cells |-> <<Plain(Str("a"))>>]
SmallRow == [kind |-> "cells", cells |-> <<Plain(Str("b"))>>]
LineSet == {TextLine, SepLine, SmallHeader, SmallRow}
HeaderOnlyTable == [found |-> TRUE, trs |-> <<<<[tag |-> "th", v |-> Plain(Str("a"))]>>>>]
OneRowTable(t) ==
  [found |-> TRUE,
   trs |-> <<<<[tag |-> "th", v |-> Plain(Str("a"))]>>, <<[tag |-> "td", v |-> Plain(Str(t))]>>>>]
SectionTables == {NoTable, HeaderOnlyTable, OneRowTable("b")}
EarlierTables == {NoTable, HeaderOnlyTable, OneRowTable("c")}

\* A document with the given section lines, a table (or none) before the
\* section and a table (or none) in it.
SmallDoc(lines, before, inside) ==
  [heading |-> TRUE, lines |-> lines,
   tables |-> (IF before.found THEN <<before>> ELSE <<>>) \o (IF inside.found THEN <<inside>> ELSE <<>>),
   sec |-> IF ~inside.found THEN 0 ELSE IF before.found THEN 2 ELSE 1]

InitTable ==
  /\ InitPipeline
  /\ \E lines \in SeqsUpTo(LineSet, MaxLines), before \in EarlierTables, inside \in SectionTables :
       fn = [arg |-> SmallDoc(lines, before, inside), stage |-> 0, file |-> {}, out |-> <<>>]

ApplyExtractRows ==
  /\ fn.stage = 0
  /\ fn' = [fn EXCEPT !.stage = 1, !.out = ExtractRows(fn.arg)]
  /\ UNCHANGED pipeline

SpecTable == InitTable /\ [][ApplyExtractRows]_vars

\* save_notified then load_notified on every set of small strings.
StoreStrings ==
  {LinkOf(c, e) : c \in {"Acme", "Beta"}, e \in Escapes} \cup {<<Tok("x"), Blank(1)>>}

InitStore ==
  /\ InitPipeline
  /\ \E S \in SUBSET StoreStrings : fn = [arg |-> S, stage |-> 0, file |-> {}, out |-> {}]

SaveSet ==
  /\ fn.stage = 0
  /\ fn' = [fn EXCEPT !.stage = 1, !.file = save_notified(fn.arg)]
  /\ UNCHANGED pipeline

LoadSet ==
  /\ fn.stage = 1
  /\ fn' = [fn EXCEPT !.stage = 2, !.out = load_notified(fn.file)]
  /\ UNCHANGED pipeline

SpecStore == InitStore /\ [][SaveSet \/ LoadSet]_vars

\* ------------------------------------------------------------------ claims
SentAt == {j \in DOMAIN log : log[j].what = "sent"}
Attempted == {j \in DOMAIN log : log[j].what \in {"sent", "failed"}}
Qualifying == {j \in DOMAIN log : log[j].what # "filtered"}
SentKeys == {log[j].key : j \in SentAt}
InRun == outcome \in {"running", "completed"} /\ pc \in {"loop", "idle"}

\* What a row says of itself: its company text and the link of its own
\* application cell.
Own(item) == Resolve(item, Empty, Empty)
IsPrimary(item) == Own(item).company # Empty /\ Own(item).company # ContinuationGlyph
PrimariesBefore(j) == {k \in 1..(j - 1) : IsPrimary(normalized_rows[k])}
LastPrimaryBefore(j) == CHOOSE k \in PrimariesBefore(j) : \A m \in PrimariesBefore(j) : m <= k

\* C1: no key is dispatched successfully twice: whenever a dispatch
\* succeeds, no dispatch of the same key has succeeded before, in this run
\* or in an earlier run whose store this run loaded.
NeverNotifiedTwice == \A j \in SentAt : ~log[j].again

\* C2: a qualifying continuation row is shown with the company of the last
\* primary row before it in the document, and, having no link of its own,
\* takes the link of that primary row's application cell, whether or not
\* the primary row passed the filters.
ContinuationResolvesToLastPrimary ==
  \A j \in Qualifying :
    (log[j].company = ContinuationGlyph /\ PrimariesBefore(j) # {}) =>
      LET primary == Own(normalized_rows[LastPrimaryBefore(j)])
      IN /\ log[j].company_display = primary.company
         /\ (log[j].own = Empty /\ primary.own # Empty) => log[j].link = primary.own

\* C3: the key of a qualifying row is the normalized link of its own
\* application cell; failing that, for a continuation row, the normalized
\* link inherited from the rows before it; otherwise, and always for a
\* primary row with no link of its own, the normalized composite, with the
\* "no link" description.
KeyFromOwnOrInheritedLink ==
  \A j \in Qualifying :
    LET e == log[j]
    IN IF e.own # Empty THEN e.key = normalize_url(e.own) /\ e.description = "link"
       ELSE IF e.company = ContinuationGlyph /\ e.context # Empty
         THEN e.key = normalize_url(e.context) /\ e.description = "link"
       ELSE e.key = e.composite /\ e.description = "none"

\* C4: a failed dispatch adds nothing and saves nothing: the in-memory set
\* is what was loaded plus the keys sent in this run, the saves are as many
\* as the dispatches that succeeded, the store is the last save (or
\* untouched), one row is examined per step and the run ends only after the
\* last row, whatever failed on the way.
FailedDispatchChangesNothing ==
  InRun =>
    /\ notified = loaded \cup SentKeys
    /\ saves = Cardinality(SentAt)
    /\ store = IF SentAt = {} THEN store0 ELSE save_notified(loaded \cup SentKeys)
    /\ Len(log) = idx
    /\ outcome = "completed" => idx = Len(normalized_rows)

\* A run that ended after a failed dispatch on its first row and a
\* successful one on its second.
FailedThenSent ==
  /\ outcome = "completed" /\ Len(log) = 2
  /\ log[1].what = "failed" /\ log[1].key \notin notified
  /\ log[2].what = "sent" /\ log[2].key \in notified
  /\ saves = 1

\* C5: one save per successful dispatch, made before the next row: between
\* rows the store holds every key sent so far in this run and every key
\* loaded at the start.
SavedAfterEverySuccess ==
  InRun => /\ saves = Cardinality(SentAt)
           /\ SentAt # {} => (SentKeys \cup loaded) \subseteq store

\* C6: saving a set and loading it back gives, after normalization, the
\* set that was saved, after normalization.
SaveLoadRoundTrip ==
  fn.stage = 2 => {normalize_url(x) : x \in fn.out} = {normalize_url(x) : x \in fn.arg}

\* C7: the NotifiedSet only grows: in a run the in-memory set holds what
\* was loaded and what was sent, and the store holds after (and during) a
\* run every string it held before it.
NotifiedSetOnlyGrows ==
  /\ InRun => (loaded \cup SentKeys) \subseteq notified
  /\ outcome # "none" => store0 \subseteq store

\* No dispatch attempted, no save, the store as the run found it.
Quiet == Attempted = {} /\ saves = 0 /\ store = store0

\* C8: the exit status of each outcome, and what the run had reached: a
\* missing webhook ends the run non-zero before the fetch, a failed fetch
\* before any parsing, a missing section non-zero; no rows, and rows of
\* which none is dispatched, end it with zero; in none of them is a
\* dispatch attempted or the store written.
OutcomesByPhase ==
  /\ outcome = "no_webhook" => exit_code # 0 /\ did = {} /\ log = <<>> /\ Quiet
  /\ outcome = "fetch_failed" => exit_code # 0 /\ did = {"fetch"} /\ log = <<>> /\ Quiet
  /\ outcome = "no_section" => exit_code # 0 /\ log = <<>> /\ Quiet
  /\ outcome = "no_rows" => exit_code = 0 /\ log = <<>> /\ Quiet
  /\ (outcome = "completed" /\ Attempted = {}) => exit_code = 0 /\ Quiet

\* A run over a document whose only qualifying row was notified by an
\* earlier run.
AllAlreadyNotified ==
  /\ outcome = "completed" /\ exit_code = 0
  /\ \E j \in DOMAIN log : log[j].what = "known"
  /\ Attempted = {} /\ store = store0 /\ store # {}

\* The rows of the first step that yields rows: the section's pipe table,
\* the section's first table element, the document's first table element.
Cascade(doc) ==
  LET table_lines == extract_first_markdown_table(doc.lines)
      pipe_rows == IF table_lines # <<>> THEN parse_markdown_table(table_lines) ELSE <<>>
      html_rows == parse_html_table(SectionTable(doc))
      parsed_any == parse_html_table(FirstTableAnywhere(doc))
  IN IF pipe_rows # <<>> THEN pipe_rows
     ELSE IF Truthy(html_rows) THEN html_rows.rows
     ELSE IF Truthy(parsed_any) THEN parsed_any.rows
     ELSE <<>>

\* C9: the rows main extracts are those of the first step of the cascade
\* that yields rows; there are none only when all three steps yield none,
\* also when the section holds pipe lines that parse to no rows.
FirstSuccessWins == fn.stage = 1 => fn.out = Cascade(fn.arg)

\* The header names of a table and the data rows made of the given trs.
HasTh(tr) == \E j \in 1..Len(tr) : tr[j].tag = "th"
HeadersOf(trs) ==
  LET ths == SelectSeq(Flatten(trs), LAMBDA c : c.tag = "th")
      from == IF ths # <<>> THEN ths ELSE trs[1]
  IN AsSeq([j \in 1..Len(from) |-> get_text(from[j])])
RowsOf(trs, data) ==
  LET full == SelectSeq(data, LAMBDA tr : tr # <<>>)
  IN AsSeq([r \in 1..Len(full) |->
       MkDict(HeadersOf(trs), Pad(AsSeq([j \in 1..Len(full[r]) |-> full[r][j].v]), Len(HeadersOf(trs))))])
KeysAreHeaders(trs, rows) ==
  \A r \in 1..Len(rows) : /\ rows[r].keys = Dedup(HeadersOf(trs))
                          /\ DOMAIN rows[r].val = Range(HeadersOf(trs))
Parsed == fn.stage = 1 /\ fn.arg.found /\ fn.arg.trs # <<>>

====
